---- MODULE Spec2Model ----
(***************************************************************************)
(* A model of web-shade-rs: the camera and its keyboard controller         *)
(* (src/src/camera.rs) and the windowed application's State and event loop *)
(* (src/src/main.rs).                                                      *)
(*                                                                         *)
(* f32 lengths are fixed-point integers: a length or a position component  *)
(* is a number of 1/Unit, a component of a normalised vector a number of   *)
(* 1/NormUnit.  Every product is rounded to the nearest integer, as every  *)
(* f32 operation is rounded to the nearest f32.                            *)
(***************************************************************************)
EXTENDS Integers, Sequences, FiniteSets, TLC

VARIABLES
    state,          \* the State of main.rs (camera, controller, GPU-side fields)
    window,         \* the winit window: its inner size
    control_flow,   \* the event loop's ControlFlow
    event,          \* the event the last step dispatched
    calls,          \* the State methods the last step called, in order
    ret,            \* what process_events returned in the last step
    nupdates,       \* update_camera calls so far
    nevents,        \* window events dispatched so far
    keyboard,       \* the keys the user holds down
    load,           \* a call of Model::load and the drawing of what it returned
    gif             \* the headless program of examples/gif

vars == <<state, window, control_flow, event, calls, ret, nupdates, nevents,
          keyboard, load, gif>>

\* a program or call that has not begun
NotStarted == [pc |-> "none"]

----------------------------------------------------------------------------
(* Bounds *)

\* update_camera calls per behaviour of SpecCam
MaxUpdates == 3

\* redraws per behaviour of Spec
MaxFrames == 2

\* window events per behaviour of Spec
MaxEvents == 2

----------------------------------------------------------------------------
(* f32 arithmetic on ultraviolet's Vec3, in fixed point *)

Unit == 1000

NormUnit == 100 * Unit

\* a / b rounded to the nearest integer, halves away from zero (b > 0)
RoundDiv(a, b) ==
    IF a >= 0 THEN (a + b \div 2) \div b ELSE -((b \div 2 - a) \div b)

RECURSIVE SqrtSearch(_, _, _)
SqrtSearch(n, lo, hi) ==
    IF lo >= hi THEN lo
    ELSE LET mid == (lo + hi + 1) \div 2
         IN  IF mid * mid <= n THEN SqrtSearch(n, mid, hi)
                               ELSE SqrtSearch(n, lo, mid - 1)

\* f32::sqrt: the square root rounded to the nearest representable value
sqrt(n) ==
    LET r == SqrtSearch(n, 0, 46340)
    IN  IF n - r * r > r THEN r + 1 ELSE r

Vec3(x, y, z) == <<x, y, z>>

vec_add(a, b) == <<a[1] + b[1], a[2] + b[2], a[3] + b[3]>>

vec_sub(a, b) == <<a[1] - b[1], a[2] - b[2], a[3] - b[3]>>

dot(a, b) == a[1] * b[1] + a[2] * b[2] + a[3] * b[3]

\* Vec3::mag of a vector of lengths
mag(v) == sqrt(dot(v, v))

\* Vec3::normalized of a vector of lengths: components in 1/NormUnit
normalized(v) ==
    LET m == mag(v)
    IN  <<RoundDiv(v[1] * NormUnit, m),
          RoundDiv(v[2] * NormUnit, m),
          RoundDiv(v[3] * NormUnit, m)>>

\* normalised vector * length: a vector of lengths
vec_mul(n, s) ==
    <<RoundDiv(n[1] * s, NormUnit),
      RoundDiv(n[2] * s, NormUnit),
      RoundDiv(n[3] * s, NormUnit)>>

\* Vec3::cross of a normalised vector with a vector of lengths (camera.up)
cross(n, u) ==
    <<RoundDiv(n[2] * u[3] - n[3] * u[2], Unit),
      RoundDiv(n[3] * u[1] - n[1] * u[3], Unit),
      RoundDiv(n[1] * u[2] - n[2] * u[1], Unit)>>

----------------------------------------------------------------------------
(* camera.rs: Camera *)

\* CameraController::new(0.2) in State::new
Speed == Unit \div 5

\* the Camera State::new builds, but for eye and aspect
Camera(eye, aspect) ==
    [eye    |-> eye,
     target |-> Vec3(0, 0, 0),
     up     |-> Vec3(0, Unit, 0),
     aspect |-> aspect,
     fovy   |-> 45 * Unit,
     znear  |-> Unit \div 10,
     zfar   |-> 100 * Unit]

----------------------------------------------------------------------------
(* camera.rs: CameraController *)

\* CameraController::new(speed)
CameraController_new(speed) ==
    [speed               |-> speed,
     is_up_pressed       |-> FALSE,
     is_down_pressed     |-> FALSE,
     is_forward_pressed  |-> FALSE,
     is_backward_pressed |-> FALSE,
     is_left_pressed     |-> FALSE,
     is_right_pressed    |-> FALSE]

\* winit's VirtualKeyCode, as far as the program tells the codes apart; "None"
\* is a keyboard event that carries no virtual key code
KeyCodes ==
    {"Space", "LShift", "W", "Up", "A", "Left", "S", "Down", "D", "Right",
     "Escape", "Q", "None"}

ElementStates == {"Pressed", "Released"}

NoSize == [width |-> 0, height |-> 0]

Event(kind, st, keycode, size) ==
    [kind |-> kind, state |-> st, keycode |-> keycode, size |-> size]

NoEvent == Event("none", "none", "None", NoSize)

KeyboardEvents ==
    {Event("KeyboardInput", s, k, NoSize) : s \in ElementStates, k \in KeyCodes}

\* the match on the key code (lines 64-90): the controller after it and the
\* value of the match
match_keycode(self, keycode, is_pressed) ==
    CASE keycode = "Space" ->
            [self |-> [self EXCEPT !.is_up_pressed = is_pressed], ret |-> TRUE]
      [] keycode = "LShift" ->
            [self |-> [self EXCEPT !.is_down_pressed = is_pressed], ret |-> TRUE]
      [] keycode \in {"W", "Up"} ->
            [self |-> [self EXCEPT !.is_forward_pressed = is_pressed], ret |-> TRUE]
      [] keycode \in {"A", "Left"} ->
            [self |-> [self EXCEPT !.is_left_pressed = is_pressed], ret |-> TRUE]
      [] keycode \in {"S", "Down"} ->
            [self |-> [self EXCEPT !.is_backward_pressed = is_pressed], ret |-> TRUE]
      [] keycode \in {"D", "Right"} ->
            [self |-> [self EXCEPT !.is_right_pressed = is_pressed], ret |-> TRUE]
      [] OTHER -> [self |-> self, ret |-> FALSE]

\* process_events with every keyboard event that has a key code reported handled
process_events_all_keys_handled(self, ev) ==
    IF ev.kind = "KeyboardInput" /\ ev.keycode # "None"
    THEN [self |-> match_keycode(self, ev.keycode, ev.state = "Pressed").self,
          ret  |-> TRUE]
    ELSE [self |-> self, ret |-> FALSE]

\* CameraController::process_events: the controller after the call and the
\* value returned
process_events(self, ev) ==
    IF ev.kind = "KeyboardInput" /\ ev.keycode # "None"
    THEN match_keycode(self, ev.keycode, ev.state = "Pressed")
    ELSE [self |-> self, ret |-> FALSE]

\* move_forward with the sign of move_backward
move_forward_wrong_sign(self, eye, forward_norm, forward_mag) ==
    IF self.is_forward_pressed /\ forward_mag > self.speed
    THEN vec_sub(eye, vec_mul(forward_norm, self.speed))
    ELSE eye

\* move_forward without the distance guard
move_forward_unguarded(self, eye, forward_norm, forward_mag) ==
    IF self.is_forward_pressed
    THEN vec_add(eye, vec_mul(forward_norm, self.speed))
    ELSE eye

\* update_camera, lines 101-103: the eye after the forward step
move_forward(self, eye, forward_norm, forward_mag) ==
    IF self.is_forward_pressed /\ forward_mag > self.speed
    THEN vec_add(eye, vec_mul(forward_norm, self.speed))
    ELSE eye

\* move_backward with the sign of move_forward
move_backward_wrong_sign(self, eye, forward_norm) ==
    IF self.is_backward_pressed
    THEN vec_add(eye, vec_mul(forward_norm, self.speed))
    ELSE eye

\* update_camera, lines 104-106: the eye after the backward step
move_backward(self, eye, forward_norm) ==
    IF self.is_backward_pressed
    THEN vec_sub(eye, vec_mul(forward_norm, self.speed))
    ELSE eye

\* strafe with the magnitude of the recomputed forward vector (line 111's
\* _forward_mag) in place of the one measured at the start of the call
strafe_recomputed_mag(target, forward, sideways, forward_mag) ==
    vec_sub(target, vec_mul(normalized(vec_add(forward, sideways)), mag(forward)))

\* update_camera, lines 114 and 117: the eye put at distance forward_mag from
\* the target, along forward + sideways
strafe(target, forward, sideways, forward_mag) ==
    vec_sub(target, vec_mul(normalized(vec_add(forward, sideways)), forward_mag))

\* update_camera, lines 97-118: camera.eye at the end of the call
eye_after(self, camera) ==
    LET forward      == vec_sub(camera.target, camera.eye)
        forward_norm == normalized(forward)
        forward_mag  == mag(forward)
        eye1     == move_forward(self, camera.eye, forward_norm, forward_mag)
        eye2     == move_backward(self, eye1, forward_norm)
        right    == cross(forward_norm, camera.up)
        forward2 == vec_sub(camera.target, eye2)
        sideways == vec_mul(right, self.speed)
        eye3 == IF self.is_right_pressed
                THEN strafe(camera.target, forward2, sideways, forward_mag)
                ELSE eye2
        eye4 == IF self.is_left_pressed
                THEN strafe(camera.target, forward2,
                            vec_sub(Vec3(0, 0, 0), sideways), forward_mag)
                ELSE eye3
    IN  eye4

\* update_camera that moves the target along with the eye
update_camera_moving_target(self, camera) ==
    LET eye == eye_after(self, camera)
    IN  [self   |-> self,
         camera |-> [camera EXCEPT
                        !.eye = eye,
                        !.target = vec_add(camera.target, vec_sub(eye, camera.eye))]]

\* update_camera that also acts on the up and down flags: the eye rises and
\* sinks along camera.up
update_camera_with_vertical(self, camera) ==
    LET eye  == eye_after(self, camera)
        lift == vec_mul(normalized(camera.up), self.speed)
        eye5 == IF self.is_up_pressed THEN vec_add(eye, lift) ELSE eye
        eye6 == IF self.is_down_pressed THEN vec_sub(eye5, lift) ELSE eye5
    IN  [self |-> self, camera |-> [camera EXCEPT !.eye = eye6]]

\* CameraController::update_camera: the controller and the camera after the call
update_camera(self, camera) ==
    [self |-> self, camera |-> [camera EXCEPT !.eye = eye_after(self, camera)]]

----------------------------------------------------------------------------
(* main.rs: Uniforms and State *)

RECURSIVE gcd(_, _)
gcd(a, b) == IF b = 0 THEN a ELSE gcd(b, a % b)

\* width as f32 / height as f32: the quotient, as a fraction in lowest terms
f32_div(w, h) ==
    LET g == gcd(w, h) IN <<w \div g, h \div g>>

\* Camera::build_view_projection_matrix: proj * view, kept as the arguments of
\* perspective_wgpu_dx and of look_at
build_view_projection_matrix(camera) ==
    [proj |-> <<camera.fovy, camera.aspect, camera.znear, camera.zfar>>,
     view |-> <<camera.eye, camera.target, camera.up>>]

\* Uniforms::new: the identity matrix
Uniforms_new == [view_proj |-> [proj |-> <<>>, view |-> <<>>]]

\* Uniforms::update_view_proj
update_view_proj(self, camera) ==
    [self EXCEPT !.view_proj = build_view_projection_matrix(camera)]

\* State::new, for a window of inner size `size`
NUM_INSTANCES_PER_ROW == 10

NUM_INSTANCES == NUM_INSTANCES_PER_ROW * NUM_INSTANCES_PER_ROW

SPACE_BETWEEN == 3 * Unit

\* Rotor3::from_angle_plane: a rotation by angle (in degrees) in the plane
\* given; it is the identity exactly when the angle is zero
from_angle_plane(angle, plane) == [angle |-> angle, plane |-> plane]

unit_xy == <<"unit_xy">>

\* Bivec3::from_normalized_axis: the plane normal to the axis
from_normalized_axis(axis) == <<"normal_to", axis>>

\* an instance whose rotation is by 45 degrees wherever it stands
Instance_at_always_rotated(x, z) ==
    LET px       == RoundDiv(SPACE_BETWEEN * (2 * x - NUM_INSTANCES_PER_ROW), 2)
        pz       == RoundDiv(SPACE_BETWEEN * (2 * z - NUM_INSTANCES_PER_ROW), 2)
        position == Vec3(px, 0, pz)
    IN  [position |-> position,
         rotation |-> from_angle_plane(45, from_normalized_axis(position))]

\* the Instance that State::new builds for the grid indices x and z
Instance_at(x, z) ==
    LET px       == RoundDiv(SPACE_BETWEEN * (2 * x - NUM_INSTANCES_PER_ROW), 2)
        pz       == RoundDiv(SPACE_BETWEEN * (2 * z - NUM_INSTANCES_PER_ROW), 2)
        position == Vec3(px, 0, pz)
    IN  [position |-> position,
         rotation |->
            IF mag(position) = 0
                THEN from_angle_plane(0, unit_xy)
                ELSE from_angle_plane(45, from_normalized_axis(normalized(position)))]

\* the instance list: z is the outer index of the flat_map, x the inner one
Instances_new ==
    [i \in 1..NUM_INSTANCES |->
        Instance_at((i - 1) % NUM_INSTANCES_PER_ROW, (i - 1) \div NUM_INSTANCES_PER_ROW)]

State_new(size) ==
    LET sc_desc  == [width |-> size.width, height |-> size.height]
        camera   == Camera(Vec3(0, 5 * Unit, -10 * Unit),
                           f32_div(sc_desc.width, sc_desc.height))
        uniforms == update_view_proj(Uniforms_new, camera)
    IN  [size              |-> size,
         sc_desc           |-> sc_desc,
         swap_chain        |-> sc_desc,
         depth_texture     |-> sc_desc,
         camera            |-> camera,
         camera_controller |-> CameraController_new(Speed),
         uniforms          |-> uniforms,
         uniform_buffer    |-> uniforms,
         render_passes     |-> 0,
         submitted         |-> 0,
         frame_uniforms    |-> Uniforms_new,
         render_pass       |-> [pipeline_layout |-> <<>>, bind_groups |-> <<>>]]

\* the State with its instance list. The list is a field no method of State
\* assigns; the event loop of Spec carries the State without it and SpecGrid
\* carries it through every operation
State_new_instances(size) == State_new(size) @@ [instances |-> Instances_new]

\* resize that leaves the depth texture at its old size
resize_keeping_depth_texture(self, new_size) ==
    LET sc_desc == [width |-> new_size.width, height |-> new_size.height]
    IN  [self EXCEPT
            !.camera.aspect = f32_div(self.sc_desc.width, self.sc_desc.height),
            !.size          = new_size,
            !.sc_desc       = sc_desc,
            !.swap_chain    = sc_desc]

\* State::resize
resize(self, new_size) ==
    LET sc_desc == [width |-> new_size.width, height |-> new_size.height]
    IN  [self EXCEPT
            !.camera.aspect = f32_div(self.sc_desc.width, self.sc_desc.height),
            !.size          = new_size,
            !.sc_desc       = sc_desc,
            !.swap_chain    = sc_desc,
            !.depth_texture = sc_desc]

\* State::input: the State after the call and the value returned
input(self, ev) ==
    LET r == process_events(self.camera_controller, ev)
    IN  [self |-> [self EXCEPT !.camera_controller = r.self], ret |-> r.ret]

\* update that derives the uniforms before the controller has moved the camera
update_uniforms_first(self) ==
    LET uniforms == update_view_proj(self.uniforms, self.camera)
        r        == update_camera(self.camera_controller, self.camera)
    IN  [self EXCEPT
            !.camera_controller = r.self,
            !.camera            = r.camera,
            !.uniforms          = uniforms,
            !.uniform_buffer    = uniforms]

\* State::update
update(self) ==
    LET r        == update_camera(self.camera_controller, self.camera)
        uniforms == update_view_proj(self.uniforms, r.camera)
    IN  [self EXCEPT
            !.camera_controller = r.self,
            !.camera            = r.camera,
            !.uniforms          = uniforms,
            !.uniform_buffer    = uniforms]

\* the bind group layouts of render_pipeline_layout, in slot order from 0
render_pipeline_layout == <<"texture_bind_group_layout", "uniform_bind_group_layout">>

\* the parameters of DrawModel::draw_model_instanced after the receiver
draw_model_instanced_params == <<"model", "instances", "uniforms", "light">>

\* the arguments render passes to draw_model_instanced
render_call_args == <<"obj_model", "instances", "uniform_bind_group">>

\* the argument bound to a parameter of draw_model_instanced; "missing" when
\* the call site passes none
Arg(args, param) ==
    LET i == CHOOSE k \in 1..Len(draw_model_instanced_params) :
                 draw_model_instanced_params[k] = param
    IN  IF i <= Len(args) THEN args[i] ELSE "missing"

\* DrawModel::draw_mesh_instanced: the set_bind_group calls it records
draw_mesh_instanced(material, uniforms, light) ==
    <<[index |-> 0, bind_group |-> material],
      [index |-> 1, bind_group |-> uniforms],
      [index |-> 2, bind_group |-> light]>>

\* DrawModel::draw_model_instanced for a model of one mesh: the set_bind_group
\* calls recorded in the render pass
draw_model_instanced(args) ==
    draw_mesh_instanced("material.bind_group", Arg(args, "uniforms"), Arg(args, "light"))

\* render without the early return on a failed acquisition
render_ignoring_error(self, frame) ==
    [self EXCEPT
        !.render_passes  = self.render_passes + 1,
        !.submitted      = self.submitted + 1,
        !.frame_uniforms = self.uniform_buffer]

\* State::render; `frame` is what swap_chain.get_current_frame() returns
render(self, frame) ==
    IF frame = "Err"
    THEN self
    ELSE [self EXCEPT
            !.render_passes  = self.render_passes + 1,
            !.submitted      = self.submitted + 1,
            !.frame_uniforms = self.uniform_buffer,
            !.render_pass    = [pipeline_layout |-> render_pipeline_layout,
                                bind_groups     |-> draw_model_instanced(render_call_args)]]

----------------------------------------------------------------------------
(* main.rs: the closure main passes to event_loop.run *)

Sizes ==
    {[width |-> 800, height |-> 600],
     [width |-> 600, height |-> 800],
     [width |-> 1024, height |-> 768]}

FrameResults == {"Ok", "Err"}

WindowEvents ==
    KeyboardEvents
    \cup {Event(k, "none", "None", NoSize) : k \in {"CloseRequested", "Moved", "Focused"}}
    \cup {Event(k, "none", "None", sz) : k \in {"Resized", "ScaleFactorChanged"},
                                         sz \in Sizes}

\* the redraw arm with render called before update
on_redraw_requested_render_first(st, frame) ==
    LET s1 == render(st, frame)
        s2 == update(s1)
    IN  [state |-> s2, calls |-> <<"render", "update">>]

\* Event::RedrawRequested (lines 442-445)
on_redraw_requested(st, frame) ==
    LET s1 == update(st)
        s2 == render(s1, frame)
    IN  [state |-> s2, calls |-> <<"update", "render">>]

\* the Escape pattern without the ElementState::Pressed field
escape_key_any_state(ev) ==
    ev.keycode = "Escape"

\* the pattern of lines 457-461: Escape, pressed
escape_key_down(ev) ==
    ev.state = "Pressed" /\ ev.keycode = "Escape"

\* Event::WindowEvent (lines 449-479); inner_size is window.inner_size()
on_window_event(st, cf, ev, inner_size) ==
    LET r == input(st, ev)
    IN  IF r.ret
        THEN [state |-> r.self, control_flow |-> cf, calls |-> <<"input">>,
              ret |-> r.ret]
        ELSE CASE ev.kind = "CloseRequested" ->
                    [state |-> r.self, control_flow |-> "Exit",
                     calls |-> <<"input">>, ret |-> r.ret]
               [] ev.kind = "KeyboardInput" ->
                    [state |-> r.self,
                     control_flow |-> IF escape_key_down(ev) THEN "Exit" ELSE cf,
                     calls |-> <<"input">>, ret |-> r.ret]
               [] ev.kind = "Resized" ->
                    [state |-> resize(r.self, ev.size), control_flow |-> cf,
                     calls |-> <<"input", "resize">>, ret |-> r.ret]
               [] ev.kind = "ScaleFactorChanged" ->
                    [state |-> resize(r.self, ev.size), control_flow |-> cf,
                     calls |-> <<"input", "resize">>, ret |-> r.ret]
               [] ev.kind = "Moved" ->
                    [state |-> resize(r.self, inner_size), control_flow |-> cf,
                     calls |-> <<"input", "resize">>, ret |-> r.ret]
               [] OTHER ->
                    [state |-> r.self, control_flow |-> cf,
                     calls |-> <<"input">>, ret |-> r.ret]

Init ==
    \E sz \in Sizes :
        /\ window = [inner_size |-> sz, redraw_requested |-> FALSE]
        /\ state = State_new(sz)
        /\ control_flow = "Poll"
        /\ event = NoEvent
        /\ calls = <<>>
        /\ ret = FALSE
        /\ nupdates = 0
        /\ nevents = 0
        /\ keyboard = {}
        /\ load = NotStarted
        /\ gif = NotStarted

RedrawRequested ==
    /\ control_flow # "Exit"
    /\ nupdates < MaxFrames
    /\ \E frame \in FrameResults :
          LET h == on_redraw_requested(state, frame)
          IN  /\ state' = h.state
              /\ calls' = h.calls
              /\ event' = Event("RedrawRequested", frame, "None", NoSize)
    /\ window' = [window EXCEPT !.redraw_requested = FALSE]
    /\ ret' = FALSE
    /\ nupdates' = nupdates + 1
    /\ UNCHANGED <<control_flow, nevents>>
    /\ UNCHANGED <<keyboard, load, gif>>

MainEventsCleared ==
    /\ control_flow # "Exit"
    /\ window' = [window EXCEPT !.redraw_requested = TRUE]
    /\ event' = Event("MainEventsCleared", "none", "None", NoSize)
    /\ calls' = <<>>
    /\ ret' = FALSE
    /\ UNCHANGED <<state, control_flow, nupdates, nevents>>
    /\ UNCHANGED <<keyboard, load, gif>>

WindowEvent ==
    /\ control_flow # "Exit"
    /\ nevents < MaxEvents
    /\ \E ev \in WindowEvents :
          LET inner == IF ev.kind \in {"Resized", "ScaleFactorChanged"}
                       THEN ev.size ELSE window.inner_size
              h     == on_window_event(state, control_flow, ev, inner)
          IN  /\ window' = [window EXCEPT !.inner_size = inner]
              /\ state' = h.state
              /\ control_flow' = h.control_flow
              /\ calls' = h.calls
              /\ ret' = h.ret
              /\ event' = ev
    /\ nevents' = nevents + 1
    /\ UNCHANGED nupdates
    /\ UNCHANGED <<keyboard, load, gif>>

\* any other Event (NewEvents, DeviceEvent, ...): the `_ => {}` arm
OtherEvent ==
    /\ control_flow # "Exit"
    /\ event' = Event("NewEvents", "none", "None", NoSize)
    /\ calls' = <<>>
    /\ ret' = FALSE
    /\ UNCHANGED <<state, window, control_flow, nupdates, nevents>>
    /\ UNCHANGED <<keyboard, load, gif>>

Next == RedrawRequested \/ MainEventsCleared \/ WindowEvent \/ OtherEvent

Spec == Init /\ [][Next]_vars

----------------------------------------------------------------------------
(* update_camera over a range of controllers and cameras *)

Controllers ==
    [speed               : {Speed},
     is_up_pressed       : BOOLEAN,
     is_down_pressed     : BOOLEAN,
     is_forward_pressed  : BOOLEAN,
     is_backward_pressed : BOOLEAN,
     is_left_pressed     : BOOLEAN,
     is_right_pressed    : BOOLEAN]

\* eye positions: the initial one, the ones 54 and 55 forward steps from it,
\* points at distance speed and just beyond it, and one straight above the target
Eyes ==
    {Vec3(0, 5 * Unit, -10 * Unit),
     Vec3(0, 170, -340),
     Vec3(0, 81, -161),
     Vec3(120, 160, 0),
     Vec3(0, 0, -201),
     Vec3(3 * Unit, 4 * Unit, 0),
     Vec3(0, 2 * Unit, 0)}

InitialSize == [width |-> 800, height |-> 600]

\* the State whose camera is at `eye` and whose controller is `c`, as State::update
\* leaves it: the uniforms are those of the camera
StateAt(eye, c) ==
    LET s      == State_new(InitialSize)
        camera == [s.camera EXCEPT !.eye = eye]
        u      == update_view_proj(s.uniforms, camera)
    IN  [s EXCEPT !.camera = camera, !.camera_controller = c,
                  !.uniforms = u, !.uniform_buffer = u]

CamInit ==
    \E eye \in Eyes, c \in Controllers :
        /\ state = StateAt(eye, c)
        /\ window = [inner_size |-> InitialSize, redraw_requested |-> FALSE]
        /\ control_flow = "Poll"
        /\ event = NoEvent
        /\ calls = <<>>
        /\ ret = FALSE
        /\ nupdates = 0
        /\ nevents = 0
        /\ keyboard = {}
        /\ load = NotStarted
        /\ gif = NotStarted

\* one call of State::update, and so of update_camera
UpdateCamera ==
    /\ nupdates < MaxUpdates
    /\ state' = update(state)
    /\ calls' = <<"update">>
    /\ nupdates' = nupdates + 1
    /\ UNCHANGED <<window, control_flow, event, ret, nevents>>
    /\ UNCHANGED <<keyboard, load, gif>>

CamNext == UpdateCamera

SpecCam == CamInit /\ [][CamNext]_vars

----------------------------------------------------------------------------
(* process_events over every controller and event *)

KeysInit ==
    /\ state = State_new(InitialSize)
    /\ window = [inner_size |-> InitialSize, redraw_requested |-> FALSE]
    /\ control_flow = "Poll"
    /\ event = NoEvent
    /\ calls = <<>>
    /\ ret = FALSE
    /\ nupdates = 0
    /\ nevents = 0
    /\ keyboard = {}
    /\ load = NotStarted
    /\ gif = NotStarted

ProcessEvents ==
    /\ \E ev \in WindowEvents :
          LET r == process_events(state.camera_controller, ev)
          IN  /\ state' = [state EXCEPT !.camera_controller = r.self]
              /\ ret' = r.ret
              /\ event' = ev
    /\ calls' = <<"process_events">>
    /\ UNCHANGED <<window, control_flow, nupdates, nevents>>
    /\ UNCHANGED <<keyboard, load, gif>>

KeysNext == ProcessEvents

SpecKeys == KeysInit /\ [][KeysNext]_vars

----------------------------------------------------------------------------
(* Properties of update_camera, checked under SpecCam *)

\* the eye-to-target distance of a camera
Dist(camera) == mag(vec_sub(camera.target, camera.eye))

\* two lengths that differ by no more than the rounding of the arithmetic
\* (one step of 1/Unit)
Near(a, b) == a - b \in -1 .. 1

\* the step is a call of update_camera
UpdateCameraCalled == calls' = <<"update">> /\ nupdates' = nupdates + 1

Flags == state.camera_controller

OnlyForward ==
    /\ Flags.is_forward_pressed
    /\ ~Flags.is_backward_pressed
    /\ ~Flags.is_left_pressed
    /\ ~Flags.is_right_pressed

\* C2 as stated: with the forward flag set and the distance greater than speed,
\* one call decreases the distance by speed, whatever the other flags are
C2_ForwardAnyFlags ==
    [][(UpdateCameraCalled /\ Flags.is_forward_pressed
            /\ Dist(state.camera) > Speed)
        => Near(Dist(state'.camera), Dist(state.camera) - Speed)]_vars

\* C2, amended: with the forward flag set, the backward, left and right flags
\* clear and the distance greater than speed, one call of update_camera
\* decreases the eye-to-target distance by speed
C2_ForwardDecreasesDistance ==
    [][(UpdateCameraCalled /\ OnlyForward /\ Dist(state.camera) > Speed)
        => Near(Dist(state'.camera), Dist(state.camera) - Speed)]_vars

\* a forward-only call has moved the eye from (0, 0, -0.201) to (0, 0, -0.001)
C2_Witness ==
    /\ nupdates = 1
    /\ OnlyForward
    /\ state.camera.eye = Vec3(0, 0, -1)

\* C5: after a call in which the right or the left flag is set, the distance is
\* the one measured at the start of the call, whatever the other flags are
C5_StrafeKeepsDistance ==
    [][(UpdateCameraCalled /\ (Flags.is_right_pressed \/ Flags.is_left_pressed))
        => Near(Dist(state'.camera), Dist(state.camera))]_vars

\* a call with the forward and right flags set has moved the initial camera's
\* eye and left it at the distance it started from
C5_Witness ==
    /\ nupdates = 1
    /\ Flags.is_forward_pressed
    /\ Flags.is_right_pressed
    /\ ~Flags.is_left_pressed
    /\ state.camera.eye \notin Eyes
    /\ Dist(state.camera) = Dist(Camera(Vec3(0, 5 * Unit, -10 * Unit), <<1, 1>>))

\* C3: no forward overshoot.  With the forward flag set and the distance at most
\* speed a call does not bring the eye nearer to the target (and with no other
\* movement flag set it does not move the eye at all); and a call without the
\* backward flag leaves the eye off the target and on the side of the target
\* it was on
C3_NoOvershoot ==
    [][UpdateCameraCalled =>
        LET d    == Dist(state.camera)
            d2   == Dist(state'.camera)
            fwd  == vec_sub(state.camera.target, state.camera.eye)
            fwd2 == vec_sub(state'.camera.target, state'.camera.eye)
        IN  /\ (Flags.is_forward_pressed /\ d <= Speed) => d2 >= d - 1
            /\ (OnlyForward /\ d <= Speed) => state'.camera.eye = state.camera.eye
            /\ ~Flags.is_backward_pressed =>
                    /\ state'.camera.eye # state'.camera.target
                    /\ dot(fwd, fwd2) > 0]_vars

\* forward-only calls have brought the eye within speed of the target and the
\* last one left it where it was
C3_Witness ==
    /\ nupdates = 3
    /\ OnlyForward
    /\ state.camera.eye = Vec3(0, 0, -1)

\* C4 as stated: whenever the backward flag is set, a call moves the eye by
\* speed away from the target
C4_BackwardAnyFlags ==
    [][(UpdateCameraCalled /\ Flags.is_backward_pressed)
        => /\ Near(Dist(state'.camera), Dist(state.camera) + Speed)
           /\ Near(mag(vec_sub(state'.camera.eye, state.camera.eye)), Speed)]_vars

\* C4, amended: with the backward flag set and the left and right flags clear,
\* a call moves the eye by speed straight away from the target at every
\* distance, unless the forward step ran in the same call (forward flag set and
\* distance greater than speed): then the two steps cancel and the eye stays
C4_BackwardMovesAway ==
    [][(UpdateCameraCalled /\ Flags.is_backward_pressed
            /\ ~Flags.is_left_pressed /\ ~Flags.is_right_pressed)
        => IF Flags.is_forward_pressed /\ Dist(state.camera) > Speed
           THEN state'.camera.eye = state.camera.eye
           ELSE /\ Near(Dist(state'.camera), Dist(state.camera) + Speed)
                /\ Near(mag(vec_sub(state'.camera.eye, state.camera.eye)),
                        Speed)]_vars

\* backward calls have moved an eye that was within speed of the target
C4_Witness ==
    /\ nupdates = 2
    /\ Flags.is_backward_pressed
    /\ ~Flags.is_forward_pressed
    /\ ~Flags.is_left_pressed
    /\ ~Flags.is_right_pressed
    /\ state.camera.eye = Vec3(360, 480, 0)

\* C6: update_camera changes camera.eye only: the camera's target, up, aspect,
\* fovy, znear and zfar and the controller's flags and speed keep their values
C6_OnlyEyeChanges ==
    [][UpdateCameraCalled =>
        /\ state'.camera = [state.camera EXCEPT !.eye = state'.camera.eye]
        /\ state'.camera_controller = state.camera_controller]_vars

\* a call with all four movement flags set has moved the eye
C6_Witness ==
    /\ nupdates >= 1
    /\ Flags.is_forward_pressed
    /\ Flags.is_backward_pressed
    /\ Flags.is_left_pressed
    /\ Flags.is_right_pressed
    /\ state.camera.eye \notin Eyes

----------------------------------------------------------------------------
(* Properties of process_events, checked under SpecKeys *)

\* the flag each movement key stands for
FlagOfKey ==
    [k \in {"W", "Up", "S", "Down", "A", "Left", "D", "Right", "Space", "LShift"} |->
        CASE k \in {"W", "Up"}    -> "is_forward_pressed"
          [] k \in {"S", "Down"}  -> "is_backward_pressed"
          [] k \in {"A", "Left"}  -> "is_left_pressed"
          [] k \in {"D", "Right"} -> "is_right_pressed"
          [] k = "Space"          -> "is_up_pressed"
          [] k = "LShift"         -> "is_down_pressed"]

\* C7: process_events returns true exactly for the keyboard events of the ten
\* movement keys and then sets the key's flag to (state == Pressed); for every
\* other event it returns false and leaves the controller as it was
C7_ProcessEvents ==
    [][calls' = <<"process_events">> =>
        IF event'.kind = "KeyboardInput" /\ event'.keycode \in DOMAIN FlagOfKey
        THEN /\ ret'
             /\ state'.camera_controller[FlagOfKey[event'.keycode]]
                    = (event'.state = "Pressed")
        ELSE /\ ~ret'
             /\ state'.camera_controller = state.camera_controller]_vars

\* Escape was pressed while two flags were set: not handled, flags kept
C7_Witness ==
    /\ event.kind = "KeyboardInput"
    /\ event.keycode = "Escape"
    /\ event.state = "Pressed"
    /\ ~ret
    /\ Flags.is_forward_pressed
    /\ Flags.is_down_pressed

----------------------------------------------------------------------------
(* Properties of State and of the event loop, checked under Spec *)

\* the step dispatched a RedrawRequested
RedrawStep == event'.kind = "RedrawRequested"

\* the step dispatched a WindowEvent
WindowEventStep ==
    event'.kind \in {"KeyboardInput", "CloseRequested", "Resized",
                     "ScaleFactorChanged", "Moved", "Focused"}

\* C1: after resize(new_size) the camera's aspect is new_size.width /
\* new_size.height, whatever the surface size was before
C1_AspectAfterResize ==
    (Len(calls) = 2 /\ calls[2] = "resize")
        => state.camera.aspect = f32_div(state.size.width, state.size.height)

\* C8: a render whose frame acquisition fails encodes no pass, submits nothing
\* and changes nothing of State (the State is the one update left), and the
\* control flow stays as it was, not Exit, so that the loop goes on dispatching
\* redraws; a render whose acquisition succeeds encodes one pass and submits
\* one command buffer
C8_FrameSkipped ==
    [][RedrawStep =>
        IF event'.state = "Err"
        THEN /\ state' = update(state)
             /\ state'.render_passes = state.render_passes
             /\ state'.submitted = state.submitted
             /\ control_flow' = control_flow
             /\ control_flow' # "Exit"
        ELSE /\ state'.render_passes = state.render_passes + 1
             /\ state'.submitted = state.submitted + 1]_vars

\* a redraw was skipped and the redraw after it submitted its command buffer
C8_Witness ==
    /\ nupdates = 2
    /\ event.kind = "RedrawRequested"
    /\ event.state = "Ok"
    /\ state.submitted = 1
    /\ state.render_passes = 1

\* the window events that ask the loop to exit
ExitEvent(e) ==
    \/ e.kind = "CloseRequested"
    \/ e.kind = "KeyboardInput" /\ e.keycode = "Escape" /\ e.state = "Pressed"

ResizeEvent(e) == e.kind \in {"Resized", "ScaleFactorChanged", "Moved"}

\* C9: every window event goes to State::input first; an event input consumed
\* triggers neither exit nor resize; an unconsumed CloseRequested or Escape
\* key-down sets the control flow to Exit, an unconsumed Resized,
\* ScaleFactorChanged or Moved calls resize (with the event's size, for Moved
\* with the window's inner size), and no other event does either
C9_InputFirst ==
    [][WindowEventStep =>
        /\ calls' # <<>>
        /\ calls'[1] = "input"
        /\ IF ret'
           THEN /\ control_flow' = control_flow
                /\ calls' = <<"input">>
                /\ state'.size = state.size
                /\ state'.sc_desc = state.sc_desc
           ELSE /\ control_flow' = IF ExitEvent(event') THEN "Exit" ELSE control_flow
                /\ calls' = IF ResizeEvent(event') THEN <<"input", "resize">>
                                                   ELSE <<"input">>
                /\ ResizeEvent(event') =>
                        state'.size = IF event'.kind = "Moved"
                                      THEN window'.inner_size ELSE event'.size
                /\ ~ResizeEvent(event') => state'.size = state.size]_vars

\* a consumed key press was followed by an unconsumed Moved, which resized
C9_Witness ==
    /\ nevents = 2
    /\ event.kind = "Moved"
    /\ ~ret
    /\ calls = <<"input", "resize">>
    /\ Flags.is_forward_pressed
    /\ control_flow = "Poll"

\* C10: a redraw runs update and then render, once each and nothing else, and
\* the frame a successful render submits is drawn with the uniforms the update
\* of the same redraw wrote
C10_UpdateThenRender ==
    [][RedrawStep =>
        /\ calls' = <<"update", "render">>
        /\ event'.state = "Ok" =>
              /\ state'.frame_uniforms = state'.uniform_buffer
              /\ state'.frame_uniforms.view_proj
                    = build_view_projection_matrix(state'.camera)]_vars

\* a redraw with the forward key held has moved the camera and submitted a frame
C10_Witness ==
    /\ event.kind = "RedrawRequested"
    /\ event.state = "Ok"
    /\ calls = <<"update", "render">>
    /\ Flags.is_forward_pressed
    /\ state.camera.eye # Vec3(0, 5 * Unit, -10 * Unit)
    /\ state.submitted = 1


\* C11: after every update the stored uniforms and the uniform buffer hold
\* build_view_projection_matrix of the camera as the controller step of that
\* update left it, and a frame submitted by the render that follows is drawn
\* with that matrix (the camera's current eye and aspect)
C11_UniformsFollowCamera ==
    [][RedrawStep =>
        LET moved == update_camera(state.camera_controller, state.camera).camera
        IN  /\ state'.camera = moved
            /\ state'.uniforms.view_proj = build_view_projection_matrix(moved)
            /\ state'.uniform_buffer = state'.uniforms
            /\ event'.state = "Ok" =>
                  state'.frame_uniforms.view_proj
                      = build_view_projection_matrix(moved)]_vars

\* two resizes have changed the camera's aspect and a redraw has put the new
\* aspect into the uniforms
C11_Witness ==
    /\ nevents = 2
    /\ event.kind = "RedrawRequested"
    /\ state.camera.aspect = <<3, 4>>
    /\ state.size = [width |-> 800, height |-> 600]
    /\ state.uniforms.view_proj.proj[2] = <<3, 4>>
    /\ state.uniform_buffer = state.uniforms

\* the size the last resize was called with: the size the window event
\* carried, for Moved the window's inner size; before any resize the window's
\* initial inner size
LastSize == window.inner_size

\* C15: after State::new and after any sequence of resize calls, the stored
\* size, the swap-chain descriptor's width and height, the swap chain and the
\* depth texture all have the size given to the most recent resize (the
\* initial window size if there was none)
C15_SizesAgree ==
    /\ state.size = LastSize
    /\ state.sc_desc = [width |-> LastSize.width, height |-> LastSize.height]
    /\ state.swap_chain = state.sc_desc
    /\ state.depth_texture = state.sc_desc
    /\ (Len(calls) = 2 /\ calls[2] = "resize" /\ event.kind # "Moved")
            => state.size = event.size

\* a second resize has just changed the size again
C15_Witness ==
    /\ nevents = 2
    /\ Len(calls) = 2
    /\ calls[2] = "resize"
    /\ event.kind = "ScaleFactorChanged"
    /\ state.size = [width |-> 1024, height |-> 768]
    /\ state.camera.aspect = <<3, 4>>

----------------------------------------------------------------------------
(* The up and down flags, checked under SpecCam *)

\* C19: the up and down flags do not reach the camera: update_camera gives the
\* same camera for controllers that differ in these two flags only, and with
\* no other flag set it leaves the camera as it was
C19_UpDownIgnored ==
    [][UpdateCameraCalled =>
        /\ \A st \in ElementStates :
              LET up   == process_events(Flags, Event("KeyboardInput", st, "Space", NoSize))
                  down == process_events(Flags, Event("KeyboardInput", st, "LShift", NoSize))
              IN  /\ up.ret /\ down.ret
                  /\ up.self.is_up_pressed = (st = "Pressed")
                  /\ down.self.is_down_pressed = (st = "Pressed")
        /\ \A u, d \in BOOLEAN :
              update_camera([Flags EXCEPT !.is_up_pressed = u,
                                          !.is_down_pressed = d],
                            state.camera).camera = state'.camera
        /\ (~Flags.is_forward_pressed /\ ~Flags.is_backward_pressed
                /\ ~Flags.is_left_pressed /\ ~Flags.is_right_pressed)
              => state'.camera = state.camera]_vars

\* update has run with the up and down flags set and no other: the camera is
\* where it started
C19_Witness ==
    /\ nupdates = 2
    /\ Flags.is_up_pressed
    /\ Flags.is_down_pressed
    /\ ~Flags.is_forward_pressed
    /\ ~Flags.is_backward_pressed
    /\ ~Flags.is_left_pressed
    /\ ~Flags.is_right_pressed
    /\ state.camera.eye = Vec3(0, 170, -340)


----------------------------------------------------------------------------
(* The instance grid: State::new with its instance list, then the operations
   of State in any order *)

MaxOps == 4

GridEvents ==
    {Event("KeyboardInput", s, k, NoSize) :
        s \in ElementStates, k \in {"A", "Space", "Escape"}}

OpsDone == nevents + nupdates + state.submitted

GridInit ==
    /\ window = [inner_size |-> InitialSize, redraw_requested |-> FALSE]
    /\ state = State_new_instances(InitialSize)
    /\ control_flow = "Poll"
    /\ event = NoEvent
    /\ calls = <<>>
    /\ ret = FALSE
    /\ nupdates = 0
    /\ nevents = 0
    /\ keyboard = {}
    /\ load = NotStarted
    /\ gif = NotStarted

GridInput ==
    /\ OpsDone < MaxOps
    /\ \E ev \in GridEvents :
          LET r == input(state, ev)
          IN  /\ state' = r.self
              /\ ret' = r.ret
              /\ event' = ev
    /\ calls' = <<"input">>
    /\ nevents' = nevents + 1
    /\ UNCHANGED <<window, control_flow, nupdates>>
    /\ UNCHANGED <<keyboard, load, gif>>

GridResize ==
    /\ OpsDone < MaxOps
    /\ \E size \in Sizes :
          /\ state' = resize(state, size)
          /\ window' = [window EXCEPT !.inner_size = size]
          /\ event' = Event("Resized", "none", "None", size)
    /\ calls' = <<"resize">>
    /\ nevents' = nevents + 1
    /\ UNCHANGED <<control_flow, ret, nupdates>>
    /\ UNCHANGED <<keyboard, load, gif>>

GridUpdate ==
    /\ OpsDone < MaxOps
    /\ state' = update(state)
    /\ calls' = <<"update">>
    /\ nupdates' = nupdates + 1
    /\ UNCHANGED <<window, control_flow, event, ret, nevents>>
    /\ UNCHANGED <<keyboard, load, gif>>

GridRender ==
    /\ OpsDone < MaxOps
    /\ \E frame \in FrameResults : state' = render(state, frame)
    /\ calls' = <<"render">>
    /\ UNCHANGED <<window, control_flow, event, ret, nupdates, nevents>>
    /\ UNCHANGED <<keyboard, load, gif>>

GridNext ==
    \/ GridInput
    \/ GridResize
    \/ GridUpdate
    \/ GridRender

SpecGrid == GridInit /\ [][GridNext]_vars

\* the index in the instance list of the entry built for grid indices x and z
GridIndex(x, z) == z * NUM_INSTANCES_PER_ROW + x + 1

Origin == Vec3(0, 0, 0)

\* C12: after State::new and after any sequence of input, update, resize and
\* render the instance list has exactly 100 entries;
\* exactly one entry, the one built for grid indices x = 5 and z = 5, stands at
\* the origin, and an entry has the zero-angle rotation exactly when it stands
\* at the origin
C12_InstanceGrid ==
    LET instances == state.instances
    IN  /\ Len(instances) = 100
        /\ instances[GridIndex(5, 5)].position = Origin
        /\ \A i \in 1..Len(instances) :
              /\ instances[i].position = Origin <=> i = GridIndex(5, 5)
              /\ instances[i].rotation.angle = 0 <=> instances[i].position = Origin

\* the grid after every kind of operation has run at least once: a key was
\* consumed by input, a resize followed, and a frame was updated and rendered
C12_Witness ==
    /\ nevents = 2
    /\ nupdates = 1
    /\ state.submitted = 1
    /\ state.camera_controller.is_left_pressed
    /\ state.size = [width |-> 600, height |-> 800]
    /\ state.instances[GridIndex(5, 5)].rotation = from_angle_plane(0, unit_xy)
    /\ state.instances[GridIndex(0, 0)].position = Vec3(-15 * Unit, 0, -15 * Unit)
    /\ state.instances[GridIndex(0, 0)].rotation.angle = 45


----------------------------------------------------------------------------
(* The bind groups of the standard draw path *)

\* C17: every bind-group slot set in a submitted render pass (slots 0, 1 and 2
\* of draw_mesh_instanced) is a slot of the pipeline layout bound for the pass,
\* and the call in render supplies a bind group for every parameter of
\* draw_model_instanced
C17_DrawPathBound ==
    state.submitted > 0 =>
        /\ \A i \in 1..Len(state.render_pass.bind_groups) :
              /\ state.render_pass.bind_groups[i].index
                    < Len(state.render_pass.pipeline_layout)
              /\ state.render_pass.bind_groups[i].bind_group # "missing"
        /\ Len(render_call_args) = Len(draw_model_instanced_params)


----------------------------------------------------------------------------
(* model.rs: Model::load, then draw_model_instanced on the Model it returned *)

MaxMaterials == 2

MaxMeshes == 2

\* Path::parent of the paths tried: "None" for the empty path and for a root
Paths ==
    {[path |-> "res/cube.obj", parent |-> "res"],
     [path |-> "cube.obj",     parent |-> ""],
     [path |-> "",             parent |-> "None"],
     [path |-> "/",            parent |-> "None"]}

\* an Option: None is the empty sequence, Some(v) the sequence of v alone
None == <<>>

Some(v) == <<v>>

\* the material_id values of a mesh in a file of n materials: unset, or the
\* index of one of the file's materials
MaterialIds(n) == {None} \cup {Some(i) : i \in 0..(n - 1)}

\* what tobj::load_obj can return: an error, or the meshes (each with its
\* material_id) and the number of materials of the file
ObjResults ==
    {[ok |-> FALSE, obj_models |-> <<>>, obj_materials |-> 0]}
    \cup UNION {[ok : {TRUE}, obj_models : [1..k -> MaterialIds(n)], obj_materials : {n}] :
                    k \in 0..MaxMeshes, n \in 0..MaxMaterials}

\* Option::unwrap_or
unwrap_or(opt, default) == IF opt = None THEN default ELSE opt[1]

Created == [textures |-> 0, bind_groups |-> 0, buffers |-> 0]

LoadInit ==
    /\ \E p \in Paths, r \in ObjResults :
          load = [pc        |-> "load_obj",
                  path      |-> p,
                  file      |-> r,
                  materials |-> <<>>,
                  meshes    |-> <<>>,
                  created   |-> Created,
                  result    |-> "none",
                  drawn     |-> 0]
    /\ state = State_new(InitialSize)
    /\ window = [inner_size |-> InitialSize, redraw_requested |-> FALSE]
    /\ control_flow = "Poll"
    /\ event = NoEvent
    /\ calls = <<>>
    /\ ret = FALSE
    /\ nupdates = 0
    /\ nevents = 0
    /\ keyboard = {}
    /\ gif = NotStarted

LoadUnchanged ==
    UNCHANGED <<state, window, control_flow, event, calls, ret, nupdates, nevents,
                keyboard, gif>>

\* line 76: tobj::load_obj(path, true)?
LoadObj ==
    /\ load.pc = "load_obj"
    /\ load' = IF load.file.ok
               THEN [load EXCEPT !.pc = "parent"]
               ELSE [load EXCEPT !.pc = "returned", !.result = "LoadError"]
    /\ LoadUnchanged

\* line 78: path.parent().context("Directory has no parent")?
ContainingFolder ==
    /\ load.pc = "parent"
    /\ load' = IF load.path.parent # "None"
               THEN [load EXCEPT !.pc = "materials"]
               ELSE [load EXCEPT !.pc = "returned",
                                 !.result = "Directory has no parent"]
    /\ LoadUnchanged

\* lines 81-105: one round of the loop over obj_materials; Texture::load
\* gives a texture or an error
LoadMaterial ==
    /\ load.pc = "materials"
    /\ Len(load.materials) < load.file.obj_materials
    /\ \E texture_loaded \in BOOLEAN :
          load' = IF texture_loaded
                  THEN [load EXCEPT
                          !.materials = Append(@, Len(@)),
                          !.created.textures = @ + 1,
                          !.created.bind_groups = @ + 1]
                  ELSE [load EXCEPT !.pc = "returned", !.result = "TextureError"]
    /\ LoadUnchanged

\* the loop over obj_materials is done
MaterialsDone ==
    /\ load.pc = "materials"
    /\ Len(load.materials) = load.file.obj_materials
    /\ load' = [load EXCEPT !.pc = "meshes"]
    /\ LoadUnchanged

\* lines 109-144: one round of the loop over obj_models
LoadMesh ==
    /\ load.pc = "meshes"
    /\ Len(load.meshes) < Len(load.file.obj_models)
    /\ LET m == load.file.obj_models[Len(load.meshes) + 1]
       IN  load' = [load EXCEPT
                      !.meshes = Append(@, [material |-> unwrap_or(m, 0)]),
                      !.created.buffers = @ + 2]
    /\ LoadUnchanged

\* line 147: Ok(Self { meshes, materials })
LoadReturn ==
    /\ load.pc = "meshes"
    /\ Len(load.meshes) = Len(load.file.obj_models)
    /\ load' = [load EXCEPT !.pc = "draw", !.result = "Ok"]
    /\ LoadUnchanged

\* lines 232-235: one round of the loop of draw_model_instanced over the
\* meshes of the Model; indexing materials out of bounds panics
DrawMesh ==
    /\ load.pc = "draw"
    /\ load.drawn < Len(load.meshes)
    /\ LET mesh == load.meshes[load.drawn + 1]
       IN  load' = IF mesh.material < Len(load.materials)
                   THEN [load EXCEPT !.drawn = @ + 1]
                   ELSE [load EXCEPT !.pc = "panicked"]
    /\ LoadUnchanged

LoadNext ==
    \/ LoadObj
    \/ ContainingFolder
    \/ LoadMaterial
    \/ MaterialsDone
    \/ LoadMesh
    \/ LoadReturn
    \/ DrawMesh

SpecLoad == LoadInit /\ [][LoadNext]_vars

\* C13: Model::load with a path that has no parent returns the error
\* "Directory has no parent" and has created no material, mesh, buffer or
\* bind group
C13_NoParentError ==
    (load.pc = "returned" /\ load.path.parent = "None") =>
        /\ load.result = "Directory has no parent"
        /\ load.materials = <<>>
        /\ load.meshes = <<>>
        /\ load.created = Created

\* C16: in every Model that Model::load returned, each mesh's material is an
\* index into materials (also when the file has no materials and a mesh
\* leaves material_id unset), and draw_model_instanced does not index
\* materials out of bounds
C16_MaterialInBounds ==
    /\ load.pc = "draw" =>
          \A i \in 1..Len(load.meshes) :
              load.meshes[i].material < Len(load.materials)
    /\ load.pc # "panicked"


----------------------------------------------------------------------------
(* examples/gif/src/main.rs: the headless program, run() statement by
   statement *)

\* run() with the mapped range taken before the device is polled
run_read_before_poll ==
    <<"request_adapter", "request_device", "create_texture", "create_buffer",
      "compile_vs", "compile_fs", "create_shader_module", "create_render_pipeline",
      "create_command_encoder", "begin_render_pass", "set_pipeline", "draw",
      "drop_render_pass", "copy_texture_to_buffer", "submit", "map_async",
      "get_mapped_range", "poll", "mapping_await", "from_raw", "save", "println">>

\* the statements of run(), in program order
run ==
    <<"request_adapter", "request_device", "create_texture", "create_buffer",
      "compile_vs", "compile_fs", "create_shader_module", "create_render_pipeline",
      "create_command_encoder", "begin_render_pass", "set_pipeline", "draw",
      "drop_render_pass", "copy_texture_to_buffer", "submit", "map_async",
      "poll", "mapping_await", "get_mapped_range", "from_raw", "save", "println">>

\* what the environment of a run decides: whether an adapter and a device are
\* there, whether the shaders compile, whether the mapping and the save
\* succeed, and whether image.png is there already
GifEnvs ==
    [adapter : BOOLEAN, device : BOOLEAN, vs : BOOLEAN, fs : BOOLEAN,
     map : BOOLEAN, save : BOOLEAN, file : {"absent", "old"}]

\* the device runs the command buffers submitted to the queue: the pass
\* clears the texture and draws into it, the copy puts the texture into the
\* output buffer
Execute(g) ==
    [g EXCEPT !.queue   = <<>>,
              !.texture = IF \E i \in 1..Len(g.queue) : g.queue[i].cmd = "draw"
                          THEN "triangle"
                          ELSE IF \E i \in 1..Len(g.queue) : g.queue[i].cmd = "clear"
                               THEN "cleared" ELSE g.texture,
              !.output_buffer =
                          IF \E i \in 1..Len(g.queue) : g.queue[i].cmd = "copy"
                          THEN "triangle" ELSE g.output_buffer]

Failed(g, how) == [g EXCEPT !.status = how]

\* one statement of run(): the program after it. Every statement run is
\* appended to trace, whatever comes of it
Exec(stmt, g0) ==
    LET g == [g0 EXCEPT !.trace = Append(@, stmt), !.pc = @ + 1]
    IN  CASE stmt = "request_adapter" ->
                IF g.env.adapter THEN g ELSE Failed(g, "Err")
          [] stmt = "request_device" ->
                IF g.env.device THEN g ELSE Failed(g, "Err")
          [] stmt = "compile_vs" ->
                IF g.env.vs THEN g ELSE Failed(g, "panicked")
          [] stmt = "compile_fs" ->
                IF g.env.fs THEN g ELSE Failed(g, "panicked")
          [] stmt = "begin_render_pass" ->
                [g EXCEPT !.encoder = Append(@, [cmd |-> "clear"])]
          [] stmt = "set_pipeline" ->
                [g EXCEPT !.encoder = Append(@, [cmd |-> "set_pipeline"])]
          [] stmt = "draw" ->
                [g EXCEPT !.encoder =
                    Append(@, [cmd |-> "draw", vertices |-> 3, instances |-> 1])]
          [] stmt = "copy_texture_to_buffer" ->
                [g EXCEPT !.encoder = Append(@, [cmd |-> "copy"])]
          [] stmt = "submit" ->
                [g EXCEPT !.queue = g.encoder, !.encoder = <<>>]
          [] stmt = "map_async" ->
                [g EXCEPT !.mapping = "pending"]
          [] stmt = "poll" ->
                LET e == Execute(g)
                IN  IF e.mapping = "pending"
                    THEN [e EXCEPT !.mapping = IF e.env.map THEN "mapped" ELSE "failed"]
                    ELSE e
          [] stmt = "mapping_await" ->
                IF g.mapping = "mapped" THEN g ELSE Failed(g, "panicked")
          [] stmt = "get_mapped_range" ->
                IF g.mapping = "mapped"
                THEN [g EXCEPT !.data = g.output_buffer]
                ELSE Failed(g, "panicked")
          [] stmt = "from_raw" ->
                IF g.data # "none"
                THEN [g EXCEPT !.buffer = g.data]
                ELSE Failed(g, "panicked")
          [] stmt = "save" ->
                IF g.env.save
                THEN [g EXCEPT !.file = g.buffer]
                ELSE Failed(g, "panicked")
          [] OTHER -> g

GifInit ==
    /\ \E env \in GifEnvs :
          gif = [pc            |-> 1,
                 status        |-> "running",
                 env           |-> env,
                 trace         |-> <<>>,
                 encoder       |-> <<>>,
                 queue         |-> <<>>,
                 texture       |-> "new",
                 output_buffer |-> "new",
                 mapping       |-> "unmapped",
                 data          |-> "none",
                 buffer        |-> "none",
                 file          |-> env.file]
    /\ state = State_new(InitialSize)
    /\ window = [inner_size |-> InitialSize, redraw_requested |-> FALSE]
    /\ control_flow = "Poll"
    /\ event = NoEvent
    /\ calls = <<>>
    /\ ret = FALSE
    /\ nupdates = 0
    /\ nevents = 0
    /\ keyboard = {}
    /\ load = NotStarted

GifUnchanged ==
    UNCHANGED <<state, window, control_flow, event, calls, ret, nupdates, nevents,
                keyboard, load>>

\* the program runs its next statement; after the last one run() returns Ok
GifStep ==
    /\ gif.status = "running"
    /\ gif' = LET g == Exec(run[gif.pc], gif)
              IN  IF g.status = "running" /\ g.pc > Len(run)
                  THEN [g EXCEPT !.status = "Ok"]
                  ELSE g
    /\ GifUnchanged

\* the device runs what was submitted, at a time of its own
GpuExecute ==
    /\ gif.status = "running"
    /\ gif.queue # <<>>
    /\ gif' = Execute(gif)
    /\ GifUnchanged

GifNext ==
    \/ GifStep
    \/ GpuExecute

SpecGif == GifInit /\ [][GifNext]_vars

\* the steps of the headless run, in the order held to be fixed
HeadlessSteps ==
    <<"begin_render_pass", "set_pipeline", "draw", "copy_texture_to_buffer",
      "submit", "map_async", "poll", "get_mapped_range", "save">>

RECURSIVE Select(_, _)
\* the subsequence of seq of the elements in set
Select(seq, set) ==
    IF seq = <<>> THEN <<>>
    ELSE IF seq[1] \in set
         THEN <<seq[1]>> \o Select(Tail(seq), set)
         ELSE Select(Tail(seq), set)

IsPrefix(a, b) == Len(a) <= Len(b) /\ a = SubSeq(b, 1, Len(a))

\* C14: the steps the headless program has performed are always an initial
\* part of the fixed order (render pass with clear, set pipeline and a draw of
\* 3 vertices, copy, submit, map request, poll, read, write), so none is
\* repeated or out of order, and a run that returns has performed each
\* exactly once; the buffer is read only once its mapping has completed, and
\* the file is written only once the buffer has been read, with what was read
C14_HeadlessOrder ==
    LET done == Select(gif.trace, {HeadlessSteps[i] : i \in 1..Len(HeadlessSteps)})
    IN  /\ IsPrefix(done, HeadlessSteps)
        /\ gif.status = "Ok" => done = HeadlessSteps
        /\ \A i \in 1..Len(gif.queue) :
              gif.queue[i].cmd = "draw" => gif.queue[i].vertices = 3
        /\ gif.data # "none" => gif.mapping = "mapped"
        /\ gif.file # gif.env.file => (gif.data # "none" /\ gif.file = gif.data)

\* a run that returned Ok: image.png, there before, now holds the frame that
\* was drawn
C14_Witness ==
    /\ gif.status = "Ok"
    /\ gif.env.file = "old"
    /\ gif.file = "triangle"
    /\ gif.mapping = "mapped"
    /\ Len(gif.trace) = Len(run)


----------------------------------------------------------------------------
(* The keyboard: keys go down and up, and each change (and each repeat of a
   key held down) reaches process_events through State::input *)

HeldKeys == {"W", "Up", "A", "Left", "Space", "Q"}

HeldInit ==
    /\ keyboard = {}
    /\ state = State_new(InitialSize)
    /\ window = [inner_size |-> InitialSize, redraw_requested |-> FALSE]
    /\ control_flow = "Poll"
    /\ event = NoEvent
    /\ calls = <<>>
    /\ ret = FALSE
    /\ nupdates = 0
    /\ nevents = 0
    /\ load = NotStarted
    /\ gif = NotStarted

\* the event of key k going to st is dispatched to State::input
KeyEvent(k, st) ==
    LET ev == Event("KeyboardInput", st, k, NoSize)
        r  == input(state, ev)
    IN  /\ state' = r.self
        /\ ret' = r.ret
        /\ event' = ev
        /\ calls' = <<"input">>
        /\ UNCHANGED <<window, control_flow, nupdates, nevents, load, gif>>

\* a key goes down, or a key held down repeats
KeyPressed ==
    \E k \in HeldKeys :
        /\ keyboard' = keyboard \cup {k}
        /\ KeyEvent(k, "Pressed")

\* a key that is down goes up
KeyReleased ==
    \E k \in keyboard :
        /\ keyboard' = keyboard \ {k}
        /\ KeyEvent(k, "Released")

HeldNext ==
    \/ KeyPressed
    \/ KeyReleased

SpecHeld == HeldInit /\ [][HeldNext]_vars

\* C18: after any sequence of key presses and releases, each flag of the
\* controller is true exactly when a key mapped to it is held down; so the
\* release of one of two held keys of a flag leaves the flag set
C18_FlagIffKeyHeld ==
    \A f \in {FlagOfKey[k] : k \in DOMAIN FlagOfKey} :
        state.camera_controller[f]
            <=> \E k \in keyboard \cap DOMAIN FlagOfKey : FlagOfKey[k] = f

====
